---- MODULE Spec2Model ----
(***************************************************************************)
(* A model of goupload (src/goupload.go): the image upload pipeline of     *)
(* ImageUploader.ProcessUpload and the helpers it calls.                   *)
(*                                                                         *)
(* Strings are sequences of one-character strings, so that the string and  *)
(* path functions of the code (filepath.Clean, filepath.Join,              *)
(* filepath.Ext, strings.TrimSuffix, ...) are computed as the code         *)
(* computes them.  The host is a Unix one: the path separator is "/".      *)
(*                                                                         *)
(* Spec is one request, of any of Requests, handled on an empty store      *)
(* while the clock may advance between the steps that read it.  SpecSeq is *)
(* a sequence of requests on one store.                                    *)
(***************************************************************************)
EXTENDS Integers, Sequences, FiniteSets, TLC

(***************************************************************************)
(* Bounds of the model.                                                    *)
(***************************************************************************)
\* the number of one-second advances of the clock in a behaviour
MaxTicks == 2
\* the clock at the start: 2024-03-15 23:59:58 UTC, two seconds before the
\* date changes
StartClock == 1710547198
\* the number of requests one behaviour of SpecSeq handles
MaxRequests == 2

(***************************************************************************)
(* strings                                                                 *)
(***************************************************************************)
Lowers == <<"a","b","c","d","e","f","g","h","i","j","k","l","m",
            "n","o","p","q","r","s","t","u","v","w","x","y","z">>
Uppers == <<"A","B","C","D","E","F","G","H","I","J","K","L","M",
            "N","O","P","Q","R","S","T","U","V","W","X","Y","Z">>
Digits == <<"0","1","2","3","4","5","6","7","8","9">>

\* strings.ToLower, one character
LowerChar(c) ==
  IF \E i \in 1..26 : Uppers[i] = c
  THEN Lowers[CHOOSE i \in 1..26 : Uppers[i] = c]
  ELSE c

\* strings.ToLower
ToLower(s) == [i \in 1..Len(s) |-> LowerChar(s[i])]

\* strings.HasSuffix
HasSuffix(s, suf) ==
  /\ Len(s) >= Len(suf)
  /\ SubSeq(s, Len(s) - Len(suf) + 1, Len(s)) = suf

\* strings.TrimSuffix
TrimSuffix(s, suf) ==
  IF HasSuffix(s, suf) THEN SubSeq(s, 1, Len(s) - Len(suf)) ELSE s

\* strings.HasPrefix
HasPrefix(s, pre) ==
  /\ Len(s) >= Len(pre)
  /\ SubSeq(s, 1, Len(pre)) = pre

\* strings.TrimPrefix
TrimPrefix(s, pre) ==
  IF HasPrefix(s, pre) THEN SubSeq(s, Len(pre) + 1, Len(s)) ELSE s

\* strings.TrimLeft(s, cutset), cutset a set of characters
RECURSIVE TrimLeft(_, _)
TrimLeft(s, cutset) ==
  IF s # <<>> /\ Head(s) \in cutset THEN TrimLeft(Tail(s), cutset) ELSE s

\* strings.TrimRight(s, cutset)
RECURSIVE TrimRight(_, _)
TrimRight(s, cutset) ==
  IF s # <<>> /\ s[Len(s)] \in cutset
  THEN TrimRight(SubSeq(s, 1, Len(s) - 1), cutset)
  ELSE s

\* the white space strings.TrimSpace removes (of the characters in use)
Spaces == {" ", "\t", "\n", "\r"}

\* strings.TrimSpace
TrimSpace(s) == TrimRight(TrimLeft(s, Spaces), Spaces)

\* strings.ReplaceAll(s, old, new), old and new one character each
ReplaceAll(s, old, new) == [i \in 1..Len(s) |-> IF s[i] = old THEN new ELSE s[i]]

\* strings.Join(parts, sep)
RECURSIVE StringsJoin(_, _)
StringsJoin(parts, sep) ==
  IF parts = <<>> THEN <<>>
  ELSE IF Len(parts) = 1 THEN parts[1]
  ELSE parts[1] \o sep \o StringsJoin(Tail(parts), sep)

\* the decimal digits of n >= 0, as fmt's %d prints them
RECURSIVE Itoa(_)
Itoa(n) ==
  IF n < 10 THEN <<Digits[n + 1]>>
  ELSE Itoa(n \div 10) \o <<Digits[(n % 10) + 1]>>

\* n >= 0 in at least w decimal digits, padded with zeros (time.Format)
RECURSIVE Pad(_, _)
Pad(n, w) ==
  IF w <= 1 THEN Itoa(n)
  ELSE IF Len(Itoa(n)) >= w THEN Itoa(n)
  ELSE <<"0">> \o Pad(n, w - 1)

(***************************************************************************)
(* path/filepath on a Unix host                                            *)
(***************************************************************************)
Separator == "/"

\* Clean's backtrack over the last element of out: w is out.w after its
\* first decrement
RECURSIVE CleanBack(_, _, _)
CleanBack(out, w, dotdot) ==
  IF w > dotdot /\ out[w + 1] # Separator
  THEN CleanBack(out, w - 1, dotdot)
  ELSE w

\* the characters of path from index r (1-based) up to the next separator
RECURSIVE CleanElem(_, _)
CleanElem(path, r) ==
  IF r <= Len(path) /\ path[r] # Separator
  THEN <<path[r]>> \o CleanElem(path, r + 1)
  ELSE <<>>

\* the loop of filepath.Clean: r is the 1-based read index, out the buffer
RECURSIVE CleanLoop(_, _, _, _, _)
CleanLoop(path, r, out, dotdot, rooted) ==
  LET n == Len(path) IN
  IF r > n THEN out
  ELSE IF path[r] = Separator
    THEN CleanLoop(path, r + 1, out, dotdot, rooted)
  ELSE IF path[r] = "." /\ (r = n \/ path[r + 1] = Separator)
    THEN CleanLoop(path, r + 1, out, dotdot, rooted)
  ELSE IF /\ path[r] = "."
          /\ r + 1 <= n
          /\ path[r + 1] = "."
          /\ (r + 1 = n \/ path[r + 2] = Separator)
    THEN IF Len(out) > dotdot
         THEN CleanLoop(path, r + 2,
                        SubSeq(out, 1, CleanBack(out, Len(out) - 1, dotdot)),
                        dotdot, rooted)
         ELSE IF ~rooted
         THEN LET o2 == (IF Len(out) > 0 THEN out \o <<Separator>> ELSE out)
                          \o <<".", ".">>
              IN CleanLoop(path, r + 2, o2, Len(o2), rooted)
         ELSE CleanLoop(path, r + 2, out, dotdot, rooted)
  ELSE LET o2 == IF (rooted /\ Len(out) # 1) \/ (~rooted /\ Len(out) # 0)
                 THEN out \o <<Separator>> ELSE out
           el == CleanElem(path, r)
       IN CleanLoop(path, r + Len(el), o2 \o el, dotdot, rooted)

\* filepath.Clean
Clean(path) ==
  IF path = <<>> THEN <<".">>
  ELSE LET rooted == path[1] = Separator
           out == IF rooted
                  THEN CleanLoop(path, 2, <<Separator>>, 1, TRUE)
                  ELSE CleanLoop(path, 1, <<>>, 0, FALSE)
       IN IF out = <<>> THEN <<".">> ELSE out

\* filepath.Join: the elements from the first non-empty one on, joined by
\* the separator and cleaned; "" when every element is empty
RECURSIVE Join(_)
Join(elem) ==
  IF elem = <<>> THEN <<>>
  ELSE IF elem[1] # <<>> THEN Clean(StringsJoin(elem, <<Separator>>))
  ELSE Join(Tail(elem))

\* filepath.ToSlash: the separator is already "/"
ToSlash(path) == ReplaceAll(path, Separator, "/")

\* the index of the dot that starts filepath.Ext(path): the last dot after
\* the last separator, 0 if there is none
RECURSIVE ExtIndex(_, _)
ExtIndex(path, i) ==
  IF i < 1 \/ path[i] = Separator THEN 0
  ELSE IF path[i] = "." THEN i
  ELSE ExtIndex(path, i - 1)

\* filepath.Ext
Ext(path) ==
  LET i == ExtIndex(path, Len(path)) IN
  IF i = 0 THEN <<>> ELSE SubSeq(path, i, Len(path))

(***************************************************************************)
(* package time: the clock is a count of Unix seconds; the local zone is   *)
(* taken to be UTC.                                                        *)
(***************************************************************************)
SecondsPerDay == 86400

\* the civil date [y, m, d] of a count of days since 1970-01-01
CivilFromDays(days) ==
  LET z   == days + 719468
      era == z \div 146097
      doe == z - era * 146097
      yoe == (doe - doe \div 1460 + doe \div 36524 - doe \div 146096) \div 365
      doy == doe - (365 * yoe + yoe \div 4 - yoe \div 100)
      mp  == (5 * doy + 2) \div 153
      d   == doy - (153 * mp + 2) \div 5 + 1
      m   == IF mp < 10 THEN mp + 3 ELSE mp - 9
      y   == yoe + era * 400 + (IF m <= 2 THEN 1 ELSE 0)
  IN [y |-> y, m |-> m, d |-> d]

\* time.Unix(t, 0).Format("2006/01/02")
FormatDateDir(t) ==
  LET c == CivilFromDays(t \div SecondsPerDay) IN
  Pad(c.y, 4) \o <<"/">> \o Pad(c.m, 2) \o <<"/">> \o Pad(c.d, 2)

\* time.Unix(t, 0).Format("20060102_150405")
FormatTimestamp(t) ==
  LET c   == CivilFromDays(t \div SecondsPerDay)
      sod == t % SecondsPerDay
  IN Pad(c.y, 4) \o Pad(c.m, 2) \o Pad(c.d, 2) \o <<"_">>
       \o Pad(sod \div 3600, 2) \o Pad((sod % 3600) \div 60, 2) \o Pad(sod % 60, 2)

(***************************************************************************)
(* UploadConfig and NewImageUploader                                       *)
(***************************************************************************)
DefaultMaxFileSize == 10485760   \* 10 << 20
DefaultAllowedExtensions ==
  << <<"j","p","g">>, <<"j","p","e","g">>, <<"p","n","g">>, <<"w","e","b","p">>,
     <<"g","i","f">>, <<"b","m","p">>, <<"s","v","g">> >>
DefaultStoragePath ==
  <<"s","t","o","r","a","g","e","/","a","p","p","/","p","u","b","l","i","c","/",
    "u","p","l","o","a","d","s","/","i","m","a","g","e","s">>
DefaultBaseURL ==
  <<"h","t","t","p",":","/","/","l","o","c","a","l","h","o","s","t",":",
    "5","2","2","0">>

\* NewImageUploader: the configuration with its defaults set
NewImageUploader(config) ==
  [ MaxFileSize       |-> IF config.MaxFileSize = 0
                          THEN DefaultMaxFileSize ELSE config.MaxFileSize,
    AllowedExtensions |-> IF Len(config.AllowedExtensions) = 0
                          THEN DefaultAllowedExtensions
                          ELSE config.AllowedExtensions,
    StoragePath       |-> IF config.StoragePath = <<>>
                          THEN DefaultStoragePath ELSE config.StoragePath,
    BaseURL           |-> IF config.BaseURL = <<>>
                          THEN DefaultBaseURL ELSE config.BaseURL,
    EnableTimestamp   |-> config.EnableTimestamp,
    CreateDateDir     |-> config.CreateDateDir ]

(***************************************************************************)
(* parseSizeToBytes                                                        *)
(***************************************************************************)
IsDigit(c) == \E i \in 1..10 : Digits[i] = c
DigitVal(c) == (CHOOSE i \in 1..10 : Digits[i] = c) - 1

\* the number a string of digits writes (0 for the empty string)
RECURSIVE DigitsVal(_)
DigitsVal(s) ==
  IF s = <<>> THEN 0
  ELSE DigitsVal(SubSeq(s, 1, Len(s) - 1)) * 10 + DigitVal(s[Len(s)])

RECURSIVE Pow10(_)
Pow10(n) == IF n = 0 THEN 1 ELSE 10 * Pow10(n - 1)

\* strconv.ParseFloat(s, 64) on the decimal forms [+-]digits[.digits] (the
\* requests of the model write no exponent, hexadecimal, "inf" or "nan"):
\* the value is (-1)^neg * num / den; any other string is a syntax error
ParseFloat(s) ==
  LET signed == s # <<>> /\ s[1] \in {"+", "-"}
      neg    == s # <<>> /\ s[1] = "-"
      body   == IF signed THEN Tail(s) ELSE s
      dots   == {i \in 1..Len(body) : body[i] = "."}
      ip     == IF dots = {} THEN body
                ELSE SubSeq(body, 1, (CHOOSE i \in dots : TRUE) - 1)
      fp     == IF dots = {} THEN <<>>
                ELSE SubSeq(body, (CHOOSE i \in dots : TRUE) + 1, Len(body))
      ok     == /\ Cardinality(dots) <= 1
                /\ \A i \in 1..Len(ip) : IsDigit(ip[i])
                /\ \A i \in 1..Len(fp) : IsDigit(fp[i])
                /\ Len(ip) + Len(fp) > 0
  IN IF ok
     THEN [err |-> FALSE, neg |-> neg,
           num |-> DigitsVal(ip \o fp), den |-> Pow10(Len(fp))]
     ELSE [err |-> TRUE, neg |-> FALSE, num |-> 0, den |-> 1]

KB == 1024          \* 1 << 10
MB == 1048576       \* 1 << 20
GB == 1073741824    \* 1 << 30

\* parseSizeToBytes: [err, bytes]; int64(value * multiplier) truncates
\* toward zero
parseSizeToBytes(input0) ==
  LET input == ToLower(TrimSpace(input0))
      multiplier == IF HasSuffix(input, <<"k","b">>) THEN KB
                    ELSE IF HasSuffix(input, <<"m","b">>) THEN MB
                    ELSE IF HasSuffix(input, <<"g","b">>) THEN GB
                    ELSE 1
      body == IF HasSuffix(input, <<"k","b">>) THEN TrimSuffix(input, <<"k","b">>)
              ELSE IF HasSuffix(input, <<"m","b">>) THEN TrimSuffix(input, <<"m","b">>)
              ELSE IF HasSuffix(input, <<"g","b">>) THEN TrimSuffix(input, <<"g","b">>)
              ELSE input
      value == ParseFloat(TrimSpace(body))
      mag   == (value.num * multiplier) \div value.den
  IN IF value.err THEN [err |-> TRUE, bytes |-> 0]
     ELSE [err |-> FALSE, bytes |-> IF value.neg THEN 0 - mag ELSE mag]

(***************************************************************************)
(* validateFile and its helpers.  A file header is                         *)
(* [Filename, Size, content]; content names what the file's bytes are.     *)
(***************************************************************************)
\* isAllowedExtension
isAllowedExtension(config, filename) ==
  LET ext == TrimPrefix(ToLower(Ext(filename)), <<".">>) IN
  \E i \in 1..Len(config.AllowedExtensions) :
     ext = ToLower(config.AllowedExtensions[i])

SniffLen == 512

\* http.DetectContentType over the 512-byte buffer detectMimeType fills:
\* the image signatures decide by the first bytes; a text shorter than the
\* buffer is followed by the buffer's zero bytes, which are binary data
DetectContentType(file) ==
  CASE file.content = "png"  -> "image/png"
    [] file.content = "jpeg" -> "image/jpeg"
    [] file.content = "gif"  -> "image/gif"
    [] file.content = "webp" -> "image/webp"
    [] file.content = "bmp"  -> "image/bmp"
    [] file.content = "xml"  -> "text/xml; charset=utf-8"
    [] file.content = "text" -> IF file.Size < SniffLen
                                THEN "application/octet-stream"
                                ELSE "text/plain; charset=utf-8"
    [] OTHER                 -> "application/octet-stream"

\* detectMimeType: Open fails on a file that cannot be opened, Read fails
\* (io.EOF) on one that holds no byte
detectMimeType(file) ==
  IF file.content = "unopenable" THEN [err |-> TRUE, mime |-> ""]
  ELSE IF file.Size = 0 THEN [err |-> TRUE, mime |-> ""]
  ELSE [err |-> FALSE, mime |-> DetectContentType(file)]

AllowedMimes ==
  {"image/jpeg", "image/png", "image/webp", "image/gif", "image/bmp",
   "image/svg+xml"}

\* isAllowedMimeType
isAllowedMimeType(mime) == mime \in AllowedMimes

\* validateFile with the size check off by one: a file of exactly the
\* limit is refused
validateFileSizeGE(config, file, maxSize) ==
  IF file.Size >= maxSize THEN "exceeds maximum size"
  ELSE IF ~isAllowedExtension(config, file.Filename) THEN "has disallowed extension"
  ELSE IF detectMimeType(file).err THEN "failed to read MIME type"
  ELSE IF ~isAllowedMimeType(detectMimeType(file).mime) THEN "has disallowed MIME type"
  ELSE ""

\* validateFile without the check of the sniffed media type
validateFileNoMime(config, file, maxSize) ==
  IF file.Size > maxSize THEN "exceeds maximum size"
  ELSE IF ~isAllowedExtension(config, file.Filename) THEN "has disallowed extension"
  ELSE ""

\* validateFile: "" when the file passes, else the kind of its error
validateFile(config, file, maxSize) ==
  IF file.Size > maxSize THEN "exceeds maximum size"
  ELSE IF ~isAllowedExtension(config, file.Filename) THEN "has disallowed extension"
  ELSE IF detectMimeType(file).err THEN "failed to read MIME type"
  ELSE IF ~isAllowedMimeType(detectMimeType(file).mime) THEN "has disallowed MIME type"
  ELSE ""

(***************************************************************************)
(* names and paths                                                         *)
(***************************************************************************)
\* generateFilename with a suffix of minute resolution
generateFilenameMinute(config, original, t) ==
  LET ext   == Ext(original)
      name0 == TrimSuffix(original, ext)
      name  == ReplaceAll(ReplaceAll(name0, " ", "_"), "-", "_")
  IN IF config.EnableTimestamp
     THEN name \o <<"_">> \o FormatTimestamp(t - (t % 60)) \o ext
     ELSE name \o <<"_">> \o Itoa(t - (t % 60)) \o ext

\* generateFilename with time.Now() = t
generateFilename(config, original, t) ==
  LET ext   == Ext(original)
      name0 == TrimSuffix(original, ext)
      name  == ReplaceAll(ReplaceAll(name0, " ", "_"), "-", "_")
  IN IF config.EnableTimestamp
     THEN name \o <<"_">> \o FormatTimestamp(t) \o ext
     ELSE name \o <<"_">> \o Itoa(t) \o ext

\* buildTargetDirectory with time.Now() = t
buildTargetDirectory(config, subDir, t) ==
  LET base1 == IF config.CreateDateDir
               THEN Join(<<config.StoragePath, FormatDateDir(t)>>)
               ELSE config.StoragePath
  IN IF subDir # <<>> THEN Join(<<base1, Clean(subDir)>>) ELSE base1

\* buildRelativePath with time.Now() = t
buildRelativePath(config, subDir, filename, t) ==
  LET parts1 == IF config.CreateDateDir THEN <<FormatDateDir(t)>> ELSE <<>>
      parts2 == IF subDir # <<>> THEN Append(parts1, subDir) ELSE parts1
      parts  == Append(parts2, filename)
  IN ToSlash(Join(parts))

\* buildFullURL
buildFullURL(config, relativePath) ==
  TrimRight(config.BaseURL, {"/"})
    \o <<"/","s","t","o","r","a","g","e","/">>
    \o TrimLeft(relativePath, {"/"})

(***************************************************************************)
(* the request: c.PostForm holds the text fields that are present,         *)
(* c.MultipartForm is "err" when the body does not parse as a multipart    *)
(* form and else holds File, the files under each field name               *)
(***************************************************************************)
\* c.DefaultPostForm
DefaultPostForm(c, key, def) ==
  IF key \in DOMAIN c.PostForm THEN c.PostForm[key] ELSE def

\* c.FormFile: the first file under the name
FormFile(c, name) ==
  IF c.MultipartForm = "err" THEN [err |-> TRUE, file |-> <<>>]
  ELSE IF name \in DOMAIN c.File /\ Len(c.File[name]) > 0
       THEN [err |-> FALSE, file |-> <<c.File[name][1]>>]
       ELSE [err |-> TRUE, file |-> <<>>]

\* getFilesFromRequest with the single-file fields tried before the lists
getFilesSingleFirst(c) ==
  IF ~FormFile(c, "file").err
  THEN [err |-> FALSE, files |-> FormFile(c, "file").file]
  ELSE IF ~FormFile(c, "image").err
  THEN [err |-> FALSE, files |-> FormFile(c, "image").file]
  ELSE IF /\ c.MultipartForm # "err"
          /\ "files" \in DOMAIN c.File
          /\ Len(c.File["files"]) > 0
  THEN [err |-> FALSE, files |-> c.File["files"]]
  ELSE IF /\ c.MultipartForm # "err"
          /\ "images" \in DOMAIN c.File
          /\ Len(c.File["images"]) > 0
  THEN [err |-> FALSE, files |-> c.File["images"]]
  ELSE [err |-> TRUE, files |-> <<>>]

\* getFilesFromRequest: [err, files]
getFilesFromRequest(c) ==
  IF /\ c.MultipartForm # "err"
     /\ "files" \in DOMAIN c.File
     /\ Len(c.File["files"]) > 0
  THEN [err |-> FALSE, files |-> c.File["files"]]
  ELSE IF /\ c.MultipartForm # "err"
          /\ "images" \in DOMAIN c.File
          /\ Len(c.File["images"]) > 0
  THEN [err |-> FALSE, files |-> c.File["images"]]
  ELSE IF ~FormFile(c, "file").err
  THEN [err |-> FALSE, files |-> FormFile(c, "file").file]
  ELSE IF ~FormFile(c, "image").err
  THEN [err |-> FALSE, files |-> FormFile(c, "image").file]
  ELSE [err |-> TRUE, files |-> <<>>]

(***************************************************************************)
(* the inputs of the model                                                 *)
(***************************************************************************)
\* the configurations handed to NewImageUploader: every field left at its
\* zero value, or every field set, with each choice of the two flags
RawConfigs ==
  { [ MaxFileSize       |-> 0,
      AllowedExtensions |-> <<>>,
      StoragePath       |-> <<>>,
      BaseURL           |-> <<>>,
      EnableTimestamp   |-> ts,
      CreateDateDir     |-> dd ] : ts \in BOOLEAN, dd \in BOOLEAN }
  \cup
  { [ MaxFileSize       |-> 1024,
      AllowedExtensions |-> << <<"P","N","G">>, <<"j","p","g">>, <<"g","i","f">>,
                               <<"t","x","t">> >>,
      StoragePath       |-> <<"u","p">>,
      BaseURL           |-> <<"h","t","t","p",":","/","/","h","/">>,
      EnableTimestamp   |-> ts,
      CreateDateDir     |-> dd ] : ts \in BOOLEAN, dd \in BOOLEAN }

\* the uploaded files
FPhoto == [Filename |-> <<"a"," ","b",".","p","n","g">>, Size |-> 500,  content |-> "png"]
FJpg   == [Filename |-> <<"B",".","J","P","G">>,         Size |-> 1024, content |-> "jpeg"]
FBig   == [Filename |-> <<"b","i","g",".","p","n","g">>, Size |-> 1536, content |-> "png"]
FEvil  == [Filename |-> <<"e","v","i","l",".","p","n","g">>, Size |-> 10, content |-> "text"]
FTxt   == [Filename |-> <<"x",".","t","x","t">>,         Size |-> 600,  content |-> "text"]
FEmpty == [Filename |-> <<"e",".","g","i","f">>,         Size |-> 0,    content |-> "gif"]
FGone  == [Filename |-> <<"g",".","g","i","f">>,         Size |-> 5,    content |-> "unopenable"]

\* the values of the sub_dir field
SubDirs ==
  { <<>>, <<"a","v">>, <<".",".","/",".",".">>, <<"/","a","v">>, <<"/",".",".">>,
    <<".","/","a","v","/">> }

\* the values of the max_size field
MaxSizes ==
  { <<>>, <<"2","k","b">>, <<" ","1",".","5"," ","K","B"," ">>, <<"5","1","2">>,
    <<"a","b","c">>, <<"0">>, <<"-","1">>, <<"0",".","5">>, <<"k","b">> }

NoFields == [x \in {} |-> <<>>]

Request(postForm, file) ==
  [PostForm |-> postForm, MultipartForm |-> "ok", File |-> file]

\* requests that vary sub_dir
PathRequests ==
  { Request([sub_dir |-> sd], [files |-> fs]) :
      sd \in SubDirs, fs \in { <<FPhoto, FPhoto>>, <<FPhoto, FJpg>> } }

\* requests that vary max_size
SizeRequests ==
  { Request([max_size |-> ms], [files |-> fs]) :
      ms \in MaxSizes, fs \in { <<FJpg, FBig>>, <<FPhoto>> } }

\* requests that vary the form's file fields
FormRequests ==
  { Request(NoFields, f) :
      f \in { [files |-> <<FJpg, FEvil, FPhoto>>],
              [files |-> <<FPhoto, FJpg>>, images |-> <<FBig>>, file |-> <<FEvil>>],
              [files |-> <<>>, images |-> <<FPhoto, FTxt>>, image |-> <<FJpg>>],
              [images |-> <<FJpg>>, file |-> <<FEvil>>],
              [file |-> <<FBig, FPhoto>>, image |-> <<FJpg>>],
              [images |-> <<>>, file |-> <<>>, image |-> <<FJpg, FPhoto>>],
              [image |-> <<FEmpty>>],
              [file |-> <<FGone>>],
              [files |-> <<FTxt>>],
              [files |-> <<>>, images |-> <<>>, file |-> <<>>, image |-> <<>>],
              NoFields } }
  \cup
  { [PostForm |-> [sub_dir |-> <<"a","v">>], MultipartForm |-> "err", File |-> NoFields] }

Requests == PathRequests \cup SizeRequests \cup FormRequests

\* the requests of the sequences of requests: the limits around the size
\* of FBig, and files that fail each check
SeqRequests ==
  { Request([max_size |-> ms], [files |-> <<FJpg, FBig>>]) :
      ms \in { <<>>, <<" ","1",".","5"," ","K","B"," ">> } }
  \cup
  { Request(NoFields, f) :
      f \in { [files |-> <<FJpg, FEvil, FPhoto>>],
              [files |-> <<>>, images |-> <<FPhoto, FTxt>>, image |-> <<FJpg>>],
              [image |-> <<FEmpty>>],
              [file |-> <<FGone>>] } }

NoRequest == [PostForm |-> NoFields, MultipartForm |-> "err", File |-> NoFields]
NoResult  == [Success |-> FALSE, Message |-> "", FilePaths |-> <<>>,
              FileURLs |-> <<>>, Error |-> FALSE]

(***************************************************************************)
(* the file system                                                         *)
(***************************************************************************)
\* the directories os.MkdirAll(path) makes sure of: path and its parents
Prefixes(path) ==
  { SubSeq(path, 1, i) : i \in {j \in 1..Len(path) :
                                  j = Len(path) \/ (path[j + 1] = Separator) } }

\* os.MkdirAll put off: nothing is made
MkdirLater(ds, path) == ds

\* os.MkdirAll on the directories ds
MkdirAll(ds, path) == ds \cup Prefixes(path)

\* the files after file is written at path (c.SaveUploadedFile): a file
\* already at path is replaced
WriteFile(fs, path, file) ==
  [p \in (DOMAIN fs) \cup {path} |-> IF p = path THEN file ELSE fs[p]]

(***************************************************************************)
(* the state                                                               *)
(***************************************************************************)
VARIABLES
  config,      \* u.config
  now,         \* the clock time.Now() reads, in Unix seconds
  dirs,        \* the directories made
  disk,        \* the files saved: save path -> the file header saved there
  pc,          \* where ProcessUpload is: idle, file, rel, done, responded
  c,           \* the request
  subDir, maxSize, targetDir, files,    \* ProcessUpload's locals
  idx,         \* the position in files of the loop
  filename, savePath, filePaths, fileURLs,
  result,      \* the UploadResult returned
  status,      \* the HTTP status HandleUpload answers with
  saved,       \* history: the saves of this request that succeeded
  nValidated,  \* history: how many times validateFile ran
  nSaveCalls,  \* history: how many times c.SaveUploadedFile ran
  served,      \* history: how many requests were answered
  written      \* history: every file saved, with the limit of its request

vars == <<config, now, dirs, disk, pc, c, subDir, maxSize, targetDir, files, idx,
          filename, savePath, filePaths, fileURLs, result, status, saved,
          nValidated, nSaveCalls, served, written>>

Init ==
  /\ config \in {NewImageUploader(rc) : rc \in RawConfigs}
  /\ now = StartClock
  /\ dirs = {}
  /\ disk = NoFields
  /\ pc = "idle"
  /\ c = NoRequest
  /\ subDir = <<>>
  /\ maxSize = 0
  /\ targetDir = <<>>
  /\ files = <<>>
  /\ idx = 0
  /\ filename = <<>>
  /\ savePath = <<>>
  /\ filePaths = <<>>
  /\ fileURLs = <<>>
  /\ result = NoResult
  /\ status = 0
  /\ saved = <<>>
  /\ nValidated = 0
  /\ nSaveCalls = 0
  /\ served = 0
  /\ written = {}

\* the clock advances by a second
Tick ==
  /\ now < StartClock + MaxTicks
  /\ now' = now + 1
  /\ UNCHANGED <<config, dirs, disk, pc, c, subDir, maxSize, targetDir, files, idx,
                 filename, savePath, filePaths, fileURLs, result, status, saved,
                 nValidated, nSaveCalls, served, written>>

Failure(message, withError) ==
  [Success |-> FALSE, Message |-> message, FilePaths |-> <<>>,
   FileURLs |-> <<>>, Error |-> withError]

\* the effective maximum size ProcessUpload computes from max_size
EffectiveMaxSize(cfg, req) ==
  LET maxSizeStr == DefaultPostForm(req, "max_size", <<>>)
      customMax  == parseSizeToBytes(maxSizeStr)
  IN IF maxSizeStr # <<>> /\ ~customMax.err /\ customMax.bytes > 0
     THEN customMax.bytes
     ELSE cfg.MaxFileSize

\* ProcessUpload from its start to the loop over the files: the form
\* fields, the target directory, the files of the request.  mkdirErr is
\* whether os.MkdirAll fails (it then makes nothing)
BeginWith(requests) ==
  /\ pc = "idle"
  /\ \E req \in requests, mkdirErr \in BOOLEAN :
       LET sd  == DefaultPostForm(req, "sub_dir", <<>>)
           td  == buildTargetDirectory(config, sd, now)
           got == getFilesFromRequest(req)
       IN /\ c' = req
          /\ subDir' = sd
          /\ maxSize' = EffectiveMaxSize(config, req)
          /\ targetDir' = td
          /\ dirs' = IF mkdirErr THEN dirs ELSE MkdirAll(dirs, td)
          /\ files' = IF mkdirErr \/ got.err THEN <<>> ELSE got.files
          /\ result' = IF mkdirErr THEN Failure("Failed to create directory", TRUE)
                       ELSE IF got.err
                       THEN Failure("Failed to get files from request", TRUE)
                       ELSE IF Len(got.files) = 0
                       THEN Failure("No files provided", FALSE)
                       ELSE NoResult
          /\ pc' = IF mkdirErr \/ got.err \/ Len(got.files) = 0
                   THEN "done" ELSE "file"
          /\ idx' = IF mkdirErr \/ got.err \/ Len(got.files) = 0 THEN 0 ELSE 1
  /\ UNCHANGED <<config, now, disk, filename, savePath, filePaths, fileURLs,
                 status, saved, nValidated, nSaveCalls, served, written>>

\* ProcessFile with "continue" in the place of the return on a validation
\* error: the file is skipped and the loop goes on
ProcessFileContinue ==
  /\ pc = "file"
  /\ \E saveErr \in BOOLEAN :
       LET file == files[idx]
           verr == validateFile(config, file, maxSize)
           fn   == generateFilename(config, file.Filename, now)
           sp   == Join(<<targetDir, fn>>)
       IN /\ nValidated' = nValidated + 1
          /\ IF verr # ""
             THEN /\ IF idx < Len(files)
                     THEN /\ idx' = idx + 1
                          /\ pc' = "file"
                          /\ UNCHANGED result
                     ELSE /\ result' = [Success |-> TRUE,
                                        Message |-> "Successfully uploaded",
                                        FilePaths |-> filePaths,
                                        FileURLs |-> fileURLs, Error |-> FALSE]
                          /\ pc' = "done"
                          /\ UNCHANGED idx
                  /\ UNCHANGED <<filename, savePath, disk, saved, nSaveCalls,
                                 written>>
             ELSE /\ filename' = fn
                  /\ savePath' = sp
                  /\ nSaveCalls' = nSaveCalls + 1
                  /\ UNCHANGED idx
                  /\ IF saveErr
                     THEN /\ result' = Failure("Failed to save file", TRUE)
                          /\ pc' = "done"
                          /\ UNCHANGED <<disk, saved, written>>
                     ELSE /\ disk' = WriteFile(disk, sp, file)
                          /\ saved' = Append(saved, [idx |-> idx, path |-> sp, t |-> now])
                          /\ written' = written \cup {[file |-> file, limit |-> maxSize]}
                          /\ pc' = "rel"
                          /\ UNCHANGED result
  /\ UNCHANGED <<config, now, dirs, c, subDir, maxSize, targetDir, files,
                 filePaths, fileURLs, status, served>>

\* one turn of the loop up to the save: validateFile, generateFilename,
\* c.SaveUploadedFile.  saveErr is whether the save fails (it then writes
\* nothing)
ProcessFile ==
  /\ pc = "file"
  /\ \E saveErr \in BOOLEAN :
       LET file == files[idx]
           verr == validateFile(config, file, maxSize)
           fn   == generateFilename(config, file.Filename, now)
           sp   == Join(<<targetDir, fn>>)
       IN /\ nValidated' = nValidated + 1
          /\ IF verr # ""
             THEN /\ result' = Failure(verr, FALSE)
                  /\ pc' = "done"
                  /\ UNCHANGED <<filename, savePath, disk, saved, nSaveCalls,
                                 written>>
             ELSE /\ filename' = fn
                  /\ savePath' = sp
                  /\ nSaveCalls' = nSaveCalls + 1
                  /\ IF saveErr
                     THEN /\ result' = Failure("Failed to save file", TRUE)
                          /\ pc' = "done"
                          /\ UNCHANGED <<disk, saved, written>>
                     ELSE /\ disk' = WriteFile(disk, sp, file)
                          /\ saved' = Append(saved, [idx |-> idx, path |-> sp, t |-> now])
                          /\ written' = written \cup {[file |-> file, limit |-> maxSize]}
                          /\ pc' = "rel"
                          /\ UNCHANGED result
  /\ UNCHANGED <<config, now, dirs, c, subDir, maxSize, targetDir, files, idx,
                 filePaths, fileURLs, status, served>>

\* append(filePaths, relativePath) written as a prepend
PrependPath(paths, relativePath) == <<relativePath>> \o paths

\* filePaths = append(filePaths, relativePath)
AppendPath(paths, relativePath) == Append(paths, relativePath)

\* the rest of the turn: buildRelativePath, buildFullURL, the two appends,
\* and after the last file the successful result
BuildResponse ==
  /\ pc = "rel"
  /\ LET relativePath == buildRelativePath(config, subDir, filename, now)
         fullURL      == buildFullURL(config, relativePath)
         paths        == AppendPath(filePaths, relativePath)
         urls         == Append(fileURLs, fullURL)
     IN /\ filePaths' = paths
        /\ fileURLs' = urls
        /\ IF idx < Len(files)
           THEN /\ idx' = idx + 1
                /\ pc' = "file"
                /\ UNCHANGED result
           ELSE /\ result' = [Success |-> TRUE, Message |-> "Successfully uploaded",
                              FilePaths |-> paths, FileURLs |-> urls, Error |-> FALSE]
                /\ pc' = "done"
                /\ UNCHANGED idx
  /\ UNCHANGED <<config, now, dirs, disk, c, subDir, maxSize, targetDir, files,
                 filename, savePath, status, saved, nValidated, nSaveCalls,
                 served, written>>

StatusOK == 200
StatusBadRequest == 400

\* HandleUpload's answer once ProcessUpload has returned
HandleUpload ==
  /\ pc = "done"
  /\ status' = IF result.Success THEN StatusOK ELSE StatusBadRequest
  /\ pc' = "responded"
  /\ served' = served + 1
  /\ UNCHANGED <<config, now, dirs, disk, c, subDir, maxSize, targetDir, files, idx,
                 filename, savePath, filePaths, fileURLs, result, saved,
                 nValidated, nSaveCalls, written>>

\* ProcessUpload begins on any request of the model
Begin == BeginWith(Requests)

\* ProcessUpload begins on a request of the sequences
BeginSeq == BeginWith(SeqRequests)

\* the handler has returned and the router calls it for the next request:
\* the locals of ProcessUpload are new, the clock and the file system stay
Return ==
  /\ pc = "responded"
  /\ served < MaxRequests
  /\ pc' = "idle"
  /\ c' = NoRequest
  /\ subDir' = <<>>
  /\ maxSize' = 0
  /\ targetDir' = <<>>
  /\ files' = <<>>
  /\ idx' = 0
  /\ filename' = <<>>
  /\ savePath' = <<>>
  /\ filePaths' = <<>>
  /\ fileURLs' = <<>>
  /\ result' = NoResult
  /\ status' = 0
  /\ saved' = <<>>
  /\ nValidated' = 0
  /\ nSaveCalls' = 0
  /\ UNCHANGED <<config, now, dirs, disk, served, written>>

\* one request on an empty store
Next == Tick \/ Begin \/ ProcessFile \/ BuildResponse \/ HandleUpload

Spec == Init /\ [][Next]_vars

\* MaxRequests requests one after the other on the same store
NextSeq == Tick \/ BeginSeq \/ ProcessFile \/ BuildResponse \/ HandleUpload \/ Return

\* the sequences start from the configurations with both flags off
InitSeq ==
  /\ Init
  /\ ~config.EnableTimestamp
  /\ ~config.CreateDateDir

SpecSeq == InitSeq /\ [][NextSeq]_vars

(***************************************************************************)
(* the claims                                                              *)
(***************************************************************************)
Returned == pc \in {"done", "responded"}
Succeeded == Returned /\ result.Success

ValidationErrors ==
  {"exceeds maximum size", "has disallowed extension", "failed to read MIME type",
   "has disallowed MIME type"}

\* the request failed on file idx of the loop
FailedInLoop ==
  /\ Returned
  /\ result.Message \in ValidationErrors \cup {"Failed to save file"}

\* path is root or lies below it
IsUnder(path, root) == path = root \/ HasPrefix(path, root \o <<Separator>>)

\* the last element of a path
LastElem(path) ==
  LET seps == {i \in 1..Len(path) : path[i] = Separator} IN
  IF seps = {} THEN path
  ELSE SubSeq(path, (CHOOSE i \in seps : \A j \in seps : j <= i) + 1, Len(path))

StorageRoot == Clean(config.StoragePath)

\* C1: whatever sub_dir the client sends, every directory ProcessUpload
\* makes is storage_path, one of its parents or a directory below it, and
\* every file it saves lies below storage_path.
C1_NoEscape ==
  /\ \A d \in dirs : IsUnder(d, StorageRoot) \/ d \in Prefixes(StorageRoot)
  /\ \A p \in DOMAIN disk : IsUnder(p, StorageRoot)
  /\ \A i \in 1..Len(saved) : IsUnder(saved[i].path, StorageRoot)

\* C2: in a successful result, storage_path joined with file_paths[i] is
\* the path input file i was saved to, and the file there is input file i.
C2_PathNamesSavedFile ==
  Succeeded =>
    \A i \in 1..Len(files) :
      /\ i <= Len(result.FilePaths)
      /\ i <= Len(saved)
      /\ LET p == Join(<<config.StoragePath, result.FilePaths[i]>>) IN
           /\ p = saved[i].path
           /\ p \in DOMAIN disk
           /\ disk[p] = files[i]

\* C3: a successful result for N files has N file_paths and N file_urls,
\* entry i of each is the one of input file i (the name input file i was
\* saved under), and file_urls[i] is the URL of file_paths[i].
C3_ParallelLists ==
  Succeeded =>
    /\ Len(result.FilePaths) = Len(files)
    /\ Len(result.FileURLs) = Len(files)
    /\ Len(saved) = Len(files)
    /\ \A i \in 1..Len(files) :
         /\ saved[i].idx = i
         /\ LastElem(result.FilePaths[i]) = LastElem(saved[i].path)
         /\ LastElem(result.FilePaths[i])
              = generateFilename(config, files[i].Filename, saved[i].t)
         /\ result.FileURLs[i]
              = TrimRight(config.BaseURL, {"/"})
                  \o <<"/","s","t","o","r","a","g","e","/">>
                  \o TrimLeft(result.FilePaths[i], {"/"})

\* a successful upload of two files of different names
C3_Witness ==
  /\ Succeeded
  /\ Len(files) = 2
  /\ files[1].Filename # files[2].Filename

\* C4: when file k is the first to fail validation or the save, the request
\* ends there: no success, no file_paths nor file_urls, the k-1 files saved
\* before are on disk, file k is the last one validated and no later file
\* is validated or handed to the save.
C4_AbortAtFirstFailure ==
  /\ (nValidated >= 1 /\ validateFile(config, files[nValidated], maxSize) # "")
       => /\ FailedInLoop
          /\ result.Message = validateFile(config, files[nValidated], maxSize)
  /\ FailedInLoop =>
       /\ ~result.Success
       /\ result.FilePaths = <<>>
       /\ result.FileURLs = <<>>
       /\ nValidated = idx
       /\ nSaveCalls \in {idx - 1, idx}
       /\ (nSaveCalls = idx) <=> (result.Message = "Failed to save file")
       /\ Len(saved) = idx - 1
       /\ \A j \in 1..(idx - 1) :
            /\ validateFile(config, files[j], maxSize) = ""
            /\ saved[j].idx = j
            /\ saved[j].path \in DOMAIN disk

\* the second file of three fails after the first was saved
C4_Witness ==
  /\ FailedInLoop
  /\ idx = 2
  /\ Len(files) = 3
  /\ Len(saved) = 1
  /\ saved[1].path \in DOMAIN disk

\* C5: every entry of file_paths of a successful result has no leading
\* separator and no backslash.
C5_RelativePaths ==
  Succeeded =>
    \A i \in 1..Len(result.FilePaths) :
      /\ result.FilePaths[i] # <<>>
      /\ result.FilePaths[i][1] # "/"
      /\ \A j \in 1..Len(result.FilePaths[i]) : result.FilePaths[i][j] # "\\"

\* two files of the same original name saved by the request, the first at
\* position i and the second at position j of saved
SameNamePairs ==
  { pr \in (1..Len(saved)) \X (1..Len(saved)) :
       /\ pr[1] < pr[2]
       /\ files[saved[pr[1]].idx].Filename = files[saved[pr[2]].idx].Filename }

\* C6 as stated: two files of the same original name in one request get
\* distinct save paths iff (enable_timestamp is off and the clock passed a
\* second boundary between the two generateFilename calls) or the names
\* differ or enable_timestamp is off.
C6_DistinctIffTimestampOff ==
  \A pr \in SameNamePairs :
    LET a == saved[pr[1]]
        b == saved[pr[2]]
        spans == a.t # b.t
        namesDiffer == files[a.idx].Filename # files[b.idx].Filename
    IN (a.path # b.path)
         <=> ((~config.EnableTimestamp /\ spans) \/ namesDiffer
                 \/ ~config.EnableTimestamp)

\* C6 amended: two files of the same original name in one request get
\* distinct save paths iff the clock read a different second at the two
\* generateFilename calls, whatever enable_timestamp is; when the paths are
\* equal the second file has replaced the first.
C6_DistinctIffSecondDiffers ==
  \A pr \in SameNamePairs :
    LET a == saved[pr[1]]
        b == saved[pr[2]]
    IN /\ (a.path # b.path) <=> (a.t # b.t)
       /\ (a.path = b.path /\ pr[2] = Len(saved)) => disk[a.path] = files[b.idx]

\* two files of one name saved within one second with enable_timestamp off:
\* one path, and the second file's bytes at it
C6_Witness ==
  /\ ~config.EnableTimestamp
  /\ \E pr \in SameNamePairs :
       /\ saved[pr[1]].t = saved[pr[2]].t
       /\ saved[pr[1]].path = saved[pr[2]].path

\* what each max_size value of the model is in bytes when it is a size, and
\* 0 when it is none
OverrideBytes(str) ==
  CASE str = <<"2","k","b">> -> 2048
    [] str = <<" ","1",".","5"," ","K","B"," ">> -> 1536
    [] str = <<"5","1","2">> -> 512
    [] OTHER -> 0

\* the limit the claim names: the override when present, parsed and
\* positive, else config.max_file_size
ClaimedLimit ==
  LET present == "max_size" \in DOMAIN c.PostForm IN
  IF present /\ OverrideBytes(c.PostForm["max_size"]) > 0
  THEN OverrideBytes(c.PostForm["max_size"])
  ELSE config.MaxFileSize

\* C7: the limit of a request is the max_size field when it is present,
\* parses and is positive, and config.max_file_size otherwise; a file is
\* refused as too large exactly when its size is greater than the limit;
\* an override that does not parse fails no request.
C7_EffectiveMaxSize ==
  /\ pc # "idle" => maxSize = ClaimedLimit
  /\ nValidated >= 1 =>
       ((Returned /\ result.Message = "exceeds maximum size")
          <=> files[nValidated].Size > ClaimedLimit)
  /\ \A i \in 1..Len(saved) : files[saved[i].idx].Size <= ClaimedLimit

\* a file of exactly the overriding limit is saved where the configured
\* limit would have refused it
C7_Witness ==
  /\ "max_size" \in DOMAIN c.PostForm
  /\ ClaimedLimit = 1536
  /\ config.MaxFileSize = 1024
  /\ \E i \in 1..Len(saved) : files[saved[i].idx].Size = 1536

HasFiles(name) ==
  /\ c.MultipartForm = "ok"
  /\ name \in DOMAIN c.File
  /\ c.File[name] # <<>>

\* C8: the files of a request are the list under "files" if it is not
\* empty, else the list under "images" if it is not empty, else the first
\* file under "file", else the first file under "image"; the extraction
\* fails exactly when none of the four has a file, and never yields an
\* empty list.
C8_FieldPriority ==
  (pc # "idle" /\ result.Message # "Failed to create directory") =>
    /\ (result.Message = "Failed to get files from request")
         <=> ~(\E name \in {"files", "images", "file", "image"} : HasFiles(name))
    /\ result.Message # "No files provided"
    /\ HasFiles("files") => files = c.File["files"]
    /\ (~HasFiles("files") /\ HasFiles("images")) => files = c.File["images"]
    /\ (~HasFiles("files") /\ ~HasFiles("images") /\ HasFiles("file"))
         => files = <<c.File["file"][1]>>
    /\ (~HasFiles("files") /\ ~HasFiles("images") /\ ~HasFiles("file")
          /\ HasFiles("image"))
         => files = <<c.File["image"][1]>>

\* the list under "images" is taken though "file" holds a file too, "files"
\* being empty or absent
C8_Witness ==
  /\ pc = "file"
  /\ ~HasFiles("files")
  /\ HasFiles("images")
  /\ (HasFiles("file") \/ HasFiles("image"))
  /\ files = c.File["images"]

\* the file passes the three checks of the validator under the limit
PassesChecks(file, limit) ==
  /\ file.Size <= limit
  /\ \E i \in 1..Len(config.AllowedExtensions) :
       ToLower(config.AllowedExtensions[i])
         = TrimPrefix(ToLower(Ext(file.Filename)), <<".">>)
  /\ file.content # "unopenable"
  /\ file.Size > 0
  /\ DetectContentType(file) \in AllowedMimes

\* C9: over any sequence of requests, the save runs for a file only after
\* that file passed the three checks in its request; a file that fails one
\* of them, or whose bytes cannot be read, is never written.
C9_SavedOnlyAfterValidation ==
  /\ nSaveCalls <= nValidated
  /\ \A i \in 1..Len(saved) :
       /\ saved[i].idx <= nValidated
       /\ PassesChecks(files[saved[i].idx], maxSize)
  /\ \A w \in written : PassesChecks(w.file, w.limit)
  /\ \A p \in DOMAIN disk :
       /\ \E w \in written : w.file = disk[p]
       /\ disk[p] \notin {FEvil, FTxt, FEmpty, FGone}

\* in a second request FBig is refused as too large while the store holds
\* the FBig an earlier request saved under a greater limit, and the file
\* before it in this request was saved
C9_Witness ==
  /\ served >= 1
  /\ \E w \in written : w.file = FBig /\ w.limit >= 1536
  /\ Returned
  /\ result.Message = "exceeds maximum size"
  /\ maxSize < 1536
  /\ Len(saved) = 1

\* C10: a request that fails on the extraction of the files, or on the
\* validation of its first file, leaves the target directory made and no
\* file saved.
C10_DirectoryLeftBehind ==
  (Returned /\ (\/ result.Message = "Failed to get files from request"
                \/ (result.Message \in ValidationErrors /\ idx = 1)))
    => /\ targetDir \in dirs
       /\ dirs # {}
       /\ IsUnder(targetDir, StorageRoot)
            => \A d \in Prefixes(targetDir) : d \in dirs
       /\ saved = <<>>
       /\ DOMAIN disk = {}

\* the request without a multipart form has failed and its sub_dir exists
C10_Witness ==
  /\ Returned
  /\ result.Message = "Failed to get files from request"
  /\ subDir = <<"a","v">>
  /\ targetDir \in dirs
  /\ LastElem(targetDir) = <<"a","v">>

====
